---- MODULE Spec2Model ----
(***************************************************************************)
(* Model of the class report engine of teaching-assistant-react:           *)
(* Class (enrollment management) and Report (status classification and     *)
(* report aggregation).                                                    *)
(*                                                                         *)
(* Representation                                                          *)
(*   - a student identity (CPF) is a natural number;                       *)
(*   - a goal name is a natural number: its rank in the collation order    *)
(*     used by String.prototype.localeCompare, so that comparing two goal  *)
(*     names is comparing their ranks;                                     *)
(*   - a JavaScript number that is the quotient of two integers is kept as *)
(*     the pair [num, den] the code divides; a number rounded to two       *)
(*     decimals is kept in hundredths (1000 stands for 10.00);             *)
(*   - a JavaScript object is a record with exactly the keys the code      *)
(*     writes; reading any other key yields undefined (JsGet).             *)
(***************************************************************************)
EXTENDS Integers, Sequences, FiniteSets, TLC

VARIABLES classObj, result, ledger, comparison, browserState, studentSet

vars == <<classObj, result, ledger, comparison, browserState, studentSet>>

\* the server's class, the last call's outcome and the callers' ledger
serverVars == <<classObj, result, ledger>>

\* the class-comparison component, the shared browser and the student set
otherVars == <<comparison, browserState, studentSet>>

(***************************************************************************)
(* Bounds of the model.                                                    *)
(***************************************************************************)
NumGoals == 2         \* goal names 1..NumGoals, by collation rank
NumCPFs == 2          \* distinct CPF numbers given to a StudentSet
NumCallers == 2       \* step definitions calling the shared browser at once
NumClasses == 7       \* classes listed by the class-comparison component
MaxRecords == 2       \* evaluation records held by one class
MaxClassSize == 40    \* enrollments of a class in SpecLargeClass
MaxGrades == 3        \* length of a list given to calculateAverage
MaxStored == 2        \* enrollments of a stored class given to fromJSON

Students == {1, 2}   \* the identities (CPF) of two students
Goals == 1..NumGoals
ClockReadings == {1, 2}   \* wall-clock readings of new Date()
Grades == {"MA", "MPA", "MANA"}
GradeInputs == Grades \cup {"MB"}   \* the symbols a caller may supply

\* the place of a grade on the scale: MANA below MPA below MA
GradeRank(grade) ==
  CASE grade = "MANA" -> 1
    [] grade = "MPA" -> 2
    [] grade = "MA" -> 3

StudentName(cpf) == <<"Student", cpf>>

(***************************************************************************)
(* JavaScript values as the report's consumers see them.                   *)
(***************************************************************************)
Undefined == [t |-> "undefined"]
NaN == [t |-> "NaN"]
Null == [t |-> "null"]
JsValue(n) == [t |-> "value", v |-> n]

\* obj[key]: the value of a property, undefined when the object has no such key
JsGet(obj, key) == IF key \in DOMAIN obj THEN JsValue(obj[key]) ELSE Undefined

\* a + b on numbers: undefined converts to NaN and NaN is absorbing
JsAdd(a, b) ==
  IF a.t = "value" /\ b.t = "value" THEN JsValue(a.v + b.v)
  ELSE IF a.t = "null" /\ b.t = "value" THEN b
  ELSE IF a.t = "value" /\ b.t = "null" THEN a
  ELSE IF a.t = "null" /\ b.t = "null" THEN JsValue(0)
  ELSE NaN

(***************************************************************************)
(* IEEE-754 double arithmetic of  Math.round((num / den) * 100) / 100,     *)
(* for integers num >= 0, den > 0, with the result in hundredths.          *)
(*                                                                         *)
(* q = fl(num/den) is num/den rounded to 53 significant bits: with         *)
(* s = 52 - floor(log2(num/den)), q = M * 2^-s where num * 2^s = M * den   *)
(* + rs and rs is the remainder of least magnitude.  p = fl(q * 100) is    *)
(* 100 * q rounded to the grid 2^-t, t = 52 - floor(log2(100 q)), and      *)
(* Math.round(p) is k + 1 when p >= k + 1/2 and k otherwise, where         *)
(* k = floor(100 num / den).  k + 1/2 is on the grid, so p >= k + 1/2 iff  *)
(* 100 q >= k + 1/2 - 2^-(t+1), that is iff                                *)
(*     D * 2^s + den * 2^(s-t) - 200 * rs >= 0,                            *)
(* with D = 200 num - (2k + 1) den.  |rs| <= den / 2 and s >= 42, so the   *)
(* sign is that of D unless D = 0 (the exact value ends in ...5).          *)
(***************************************************************************)
RECURSIVE Log2Up(_, _)
Log2Up(a, b) == IF a < 2 * b THEN 0 ELSE 1 + Log2Up(a, 2 * b)

RECURSIVE Log2Down(_, _)
Log2Down(a, b) == IF a >= b THEN 0 ELSE 1 + Log2Down(2 * a, b)

\* floor(log2(a / b)) for integers a > 0, b > 0
FloorLog2(a, b) == IF a >= b THEN Log2Up(a, b) ELSE 0 - Log2Down(a, b)

RECURSIVE Pow2(_)
Pow2(k) == IF k = 0 THEN 1 ELSE 2 * Pow2(k - 1)

RECURSIVE Pow2Mod(_, _)
Pow2Mod(k, n) == IF k = 0 THEN 1 % n ELSE (2 * Pow2Mod(k - 1, n)) % n

RoundHalfUp100(num, den) == (200 * num + den) \div (2 * den)

MathRound100(num, den) ==
  IF num = 0 THEN 0
  ELSE LET s == 52 - FloorLog2(num, den)
           r == ((num % den) * Pow2Mod(s, den)) % den
           rs == IF 2 * r <= den THEN r ELSE r - den
           k == (100 * num) \div den
           D == 200 * num - (2 * k + 1) * den
           t == 52 - FloorLog2(2 * k + 1, 2)
       IN IF D > 0 THEN k + 1
          ELSE IF D < 0 THEN k
          ELSE IF den * Pow2(s - t) >= 200 * rs THEN k + 1 ELSE k


(***************************************************************************)
(* Class: enrollment management.                                           *)
(***************************************************************************)
Student(cpf) == [cpf |-> cpf, name |-> StudentName(cpf)]

Enrollment(student) == [student |-> student, evaluations |-> <<>>]

\* enrollments.findIndex(e => e.getStudent().getCPF() === studentCPF), 0 for -1
findIndex(enrollments, studentCPF) ==
  IF \E i \in DOMAIN enrollments : enrollments[i].student.cpf = studentCPF
  THEN CHOOSE i \in DOMAIN enrollments :
         /\ enrollments[i].student.cpf = studentCPF
         /\ \A j \in 1..(i - 1) : enrollments[j].student.cpf # studentCPF
  ELSE 0

findEnrollmentByStudentCPF(enrollments, studentCPF) ==
  findIndex(enrollments, studentCPF)

\* a splice that removes the first element whatever the index
splice_first(seq, index) == Tail(seq)

\* seq.splice(index, 1)
splice(seq, index) ==
  SubSeq(seq, 1, index - 1) \o SubSeq(seq, index + 1, Len(seq))

getEnrollments(c) == c.enrollments

\* a class id with the semester before the year
getClassId_semesterFirst(c) == <<c.topic, "-", c.semester, "-", c.year>>

getClassId(c) == <<c.topic, "-", c.year, "-", c.semester>>

RECURSIVE CountRecords(_)
CountRecords(enrollments) ==
  IF enrollments = <<>> THEN 0
  ELSE Len(Head(enrollments).evaluations) + CountRecords(Tail(enrollments))

\* evaluations.findIndex(e => e.getGoal() === goal), 0 for -1
findEvaluation(evaluations, goal) ==
  IF \E i \in DOMAIN evaluations : evaluations[i].goal = goal
  THEN CHOOSE i \in DOMAIN evaluations :
         /\ evaluations[i].goal = goal
         /\ \A j \in 1..(i - 1) : evaluations[j].goal # goal
  ELSE 0

\* a validation that accepts every symbol
isValidGrade_any(grade) == TRUE

\* a grade symbol is accepted only if it is one of MA, MPA, MANA
isValidGrade(grade) == grade \in Grades

\* setting a grade that appends a record even when the goal has one
addOrUpdateEvaluation_append(evaluations, goal, grade) ==
  Append(evaluations, [goal |-> goal, grade |-> grade])

\* setting a grade: replaces the record of the goal, or appends a new record
addOrUpdateEvaluation(evaluations, goal, grade) ==
  LET i == findEvaluation(evaluations, goal)
  IN IF i = 0 THEN Append(evaluations, [goal |-> goal, grade |-> grade])
     ELSE [evaluations EXCEPT ![i] = [goal |-> goal, grade |-> grade]]

(***************************************************************************)
(* Report: status classification and aggregation.                          *)
(***************************************************************************)
\* a per-student table that values MANA above MPA
gradeValues_inverted(grade) ==
  CASE grade = "MA" -> 10
    [] grade = "MPA" -> 4
    [] grade = "MANA" -> 7

\* gradeValues of calculateStudentAverage
gradeValues(grade) ==
  CASE grade = "MA" -> 10
    [] grade = "MPA" -> 7
    [] grade = "MANA" -> 4

\* a per-goal table that values MANA at 0
gradeValuesPerformance_zero(grade) ==
  CASE grade = "MA" -> 10
    [] grade = "MPA" -> 7
    [] grade = "MANA" -> 0

\* gradeValues of calculateEvaluationPerformance
gradeValuesPerformance(grade) ==
  CASE grade = "MA" -> 10
    [] grade = "MPA" -> 7
    [] grade = "MANA" -> 4

\* evaluations.reduce((sum, evaluation) => sum + gradeValues[evaluation.getGrade()], 0)
RECURSIVE totalGradeOf(_)
totalGradeOf(evaluations) ==
  IF evaluations = <<>> THEN 0
  ELSE gradeValues(Head(evaluations).grade) + totalGradeOf(Tail(evaluations))

\* the quotient totalGrade / evaluations.length, or 0 without evaluations
calculateStudentAverage(enrollment) ==
  LET evaluations == enrollment.evaluations
  IN IF Len(evaluations) = 0 THEN [num |-> 0, den |-> 1]
     ELSE [num |-> totalGradeOf(evaluations), den |-> Len(evaluations)]

RECURSIVE Gcd(_, _)
Gcd(a, b) == IF b = 0 THEN a ELSE Gcd(b, a % b)

\* a + b on quotients, in lowest terms
RatAdd(a, b) ==
  LET n == a.num * b.den + b.num * a.den
      d == a.den * b.den
      g == Gcd(n, d)
  IN [num |-> n \div g, den |-> d \div g]

\* enrollments.reduce((sum, e) => sum + this.calculateStudentAverage(e), 0):
\* the exact sum, added pairwise (the exact sum does not depend on the order)
RECURSIVE totalAverageOf(_)
totalAverageOf(enrollments) ==
  IF enrollments = <<>> THEN [num |-> 0, den |-> 1]
  ELSE IF Len(enrollments) = 1 THEN calculateStudentAverage(enrollments[1])
  ELSE LET half == Len(enrollments) \div 2
       IN RatAdd(totalAverageOf(SubSeq(enrollments, 1, half)),
                 totalAverageOf(SubSeq(enrollments, half + 1, Len(enrollments))))

calculateClassAverage(c) ==
  LET enrollments == getEnrollments(c)
  IN IF Len(enrollments) = 0 THEN [num |-> 0, den |-> 1]
     ELSE LET totalAverage == totalAverageOf(enrollments)
          IN [num |-> totalAverage.num,
              den |-> totalAverage.den * Len(enrollments)]

\* the approval threshold taken as exclusive
getStudentStatus_exclusive(enrollment) ==
  LET average == calculateStudentAverage(enrollment)
  IN IF average.num > 7 * average.den THEN "APPROVED" ELSE "FAILED"

getStudentStatus(enrollment) ==
  LET average == calculateStudentAverage(enrollment)
  IN IF average.num >= 7 * average.den THEN "APPROVED" ELSE "FAILED"

RECURSIVE countStatus(_, _)
countStatus(enrollments, acc) ==
  IF enrollments = <<>> THEN acc
  ELSE LET status == getStudentStatus(Head(enrollments))
       IN countStatus(Tail(enrollments),
            IF status = "APPROVED"
            THEN [acc EXCEPT !.approved = @ + 1]
            ELSE IF status = "APPROVED_FINAL"
            THEN [acc EXCEPT !.approvedFinal = @ + 1]
            ELSE [acc EXCEPT !.notApproved = @ + 1])

calculateApprovalStats(c) ==
  countStatus(getEnrollments(c),
              [approved |-> 0, approvedFinal |-> 0, notApproved |-> 0])

\* every evaluation of the class, in the order the nested forEach visits them
RECURSIVE visitedEvaluations(_)
visitedEvaluations(enrollments) ==
  IF enrollments = <<>> THEN <<>>
  ELSE Head(enrollments).evaluations \o visitedEvaluations(Tail(enrollments))

\* the keys of the goalMap: a Map iterates in insertion order, and a goal is
\* inserted (goalMap.set) at its first visited evaluation
goalMapKeys(visited) ==
  LET firsts == SelectSeq([p \in 1..Len(visited) |->
                             [pos |-> p, goal |-> visited[p].goal]],
                          LAMBDA x : \A q \in 1..(x.pos - 1) :
                                       visited[q].goal # x.goal)
  IN [i \in 1..Len(firsts) |-> firsts[i].goal]

\* the distribution with a grade counted under the wrong symbol
gradeDistributionOf_shifted(ofGoal) ==
  [MANA |-> Len(SelectSeq(ofGoal, LAMBDA e : e.grade = "MANA")),
   MPA |-> 0,
   MA |-> Len(SelectSeq(ofGoal, LAMBDA e : e.grade \in {"MA", "MPA"}))]

\* gradeDistribution of a goal: one gradeDistribution[grade]++ for each of
\* its visited evaluations
gradeDistributionOf(ofGoal) ==
  [MANA |-> Len(SelectSeq(ofGoal, LAMBDA e : e.grade = "MANA")),
   MPA |-> Len(SelectSeq(ofGoal, LAMBDA e : e.grade = "MPA")),
   MA |-> Len(SelectSeq(ofGoal, LAMBDA e : e.grade = "MA"))]

\* the accumulator of a goal: one grades.push(grade) for each of its
\* visited evaluations, in the order visited
goalData(visited, goal) ==
  LET ofGoal == SelectSeq(visited, LAMBDA e : e.goal = goal)
  IN [grades |-> [i \in 1..Len(ofGoal) |-> ofGoal[i].grade],
      gradeDistribution |-> gradeDistributionOf(ofGoal)]

\* the goalMap after enrollments.forEach
goalMapOf(enrollments) ==
  LET visited == visitedEvaluations(enrollments)
      keys == goalMapKeys(visited)
  IN [keys |-> keys,
      data |-> [g \in {keys[i] : i \in DOMAIN keys} |-> goalData(visited, g)]]

\* data.grades.reduce((sum, grade) => sum + gradeValues[grade], 0)
RECURSIVE totalGradeOfGoal(_)
totalGradeOfGoal(grades) ==
  IF grades = <<>> THEN 0
  ELSE gradeValuesPerformance(Head(grades)) + totalGradeOfGoal(Tail(grades))

\* Math.round(averageGrade * 100) / 100 of one goal, in hundredths
roundedAverageGrade(grades) ==
  IF Len(grades) > 0 THEN MathRound100(totalGradeOfGoal(grades), Len(grades))
  ELSE 0

\* the entry pushed by goalMap.forEach
performanceEntry(goal, data) ==
  [goal |-> goal,
   averageGrade |-> roundedAverageGrade(data.grades),
   gradeDistribution |-> data.gradeDistribution,
   evaluatedStudents |-> Len(data.grades)]

\* a.goal.localeCompare(b.goal): negative, zero or positive
localeCompare(a, b) == a - b

\* Array.prototype.sort with the comparator: a stable insertion
RECURSIVE insertSorted(_, _)
insertSorted(sorted, entry) ==
  IF sorted = <<>> THEN <<entry>>
  ELSE IF localeCompare(entry.goal, Head(sorted).goal) < 0
       THEN <<entry>> \o sorted
       ELSE <<Head(sorted)>> \o insertSorted(Tail(sorted), entry)

\* the entries left in the order of the goalMap
sortByGoal_unsorted(performance) == performance

RECURSIVE sortByGoal(_)
sortByGoal(performance) ==
  IF performance = <<>> THEN <<>>
  ELSE insertSorted(sortByGoal(SubSeq(performance, 1, Len(performance) - 1)),
                    performance[Len(performance)])

calculateEvaluationPerformance(c) ==
  LET goalMap == goalMapOf(getEnrollments(c))
      performance == [i \in 1..Len(goalMap.keys) |->
                        performanceEntry(goalMap.keys[i],
                                         goalMap.data[goalMap.keys[i]])]
  IN sortByGoal(performance)

\* the entry of one enrollment in getStudentReports
studentEntry(enrollment) ==
  LET student == enrollment.student
      average == calculateStudentAverage(enrollment)
  IN [studentId |-> student.cpf,
      name |-> student.name,
      finalGrade |-> MathRound100(average.num, average.den),
      status |-> getStudentStatus(enrollment)]

getStudentReports(c) ==
  LET enrollments == getEnrollments(c)
  IN [i \in 1..Len(enrollments) |-> studentEntry(enrollments[i])]

\* a generate whose clock reading also enters totalEnrolled
generate_stamped(c, now) ==
  LET enrollments == getEnrollments(c)
      approvalStats == calculateApprovalStats(c)
      evaluationPerformance == calculateEvaluationPerformance(c)
      students == getStudentReports(c)
      classAverage == calculateClassAverage(c)
  IN [classId |-> getClassId(c),
      topic |-> c.topic,
      semester |-> c.semester,
      year |-> c.year,
      totalEnrolled |-> Len(enrollments) + now,
      studentsAverage |-> MathRound100(classAverage.num, classAverage.den),
      approvedCount |-> approvalStats.approved,
      approvedFinalCount |-> approvalStats.approvedFinal,
      notApprovedCount |-> approvalStats.notApproved,
      evaluationPerformance |-> evaluationPerformance,
      students |-> students,
      generatedAt |-> now]

generate(c, now) ==
  LET enrollments == getEnrollments(c)
      approvalStats == calculateApprovalStats(c)
      evaluationPerformance == calculateEvaluationPerformance(c)
      students == getStudentReports(c)
      classAverage == calculateClassAverage(c)
  IN [classId |-> getClassId(c),
      topic |-> c.topic,
      semester |-> c.semester,
      year |-> c.year,
      totalEnrolled |-> Len(enrollments),
      studentsAverage |-> MathRound100(classAverage.num, classAverage.den),
      approvedCount |-> approvalStats.approved,
      approvedFinalCount |-> approvalStats.approvedFinal,
      notApprovedCount |-> approvalStats.notApproved,
      evaluationPerformance |-> evaluationPerformance,
      students |-> students,
      generatedAt |-> now]

(***************************************************************************)
(* StudentSet: students kept by CPF, a CPF being a string of digits that   *)
(* may be written with dots and dashes.                                    *)
(***************************************************************************)
DigitChars == <<"1", "2", "3", "4", "5", "6", "7", "8", "9">>

\* the CPF number n written plain or with a dot and a dash
CPFStrings ==
  {<<DigitChars[n], DigitChars[n], DigitChars[n]>> : n \in 1..NumCPFs}
    \cup {<<DigitChars[n], ".", DigitChars[n], "-", DigitChars[n]>> :
            n \in 1..NumCPFs}

StudentInputs ==
  {[name |-> name, cpf |-> cpf] : name \in {"Ana", "Bia"}, cpf \in CPFStrings}

\* cpf.replace(/[.-]/g, '')
cleanCPF(cpf) == SelectSeq(cpf, LAMBDA ch : ch \notin {".", "-"})

\* Student.getCleanCPF()
getCleanCPF(student) == cleanCPF(student.cpf)

\* this.students.findIndex(s => s.getCleanCPF() === cleanCPF), 0 for -1
findStudentIndex(students, clean) ==
  IF \E i \in DOMAIN students : getCleanCPF(students[i]) = clean
  THEN CHOOSE i \in DOMAIN students :
         /\ getCleanCPF(students[i]) = clean
         /\ \A j \in 1..(i - 1) : getCleanCPF(students[j]) # clean
  ELSE 0

\* a lookup that compares the CPF as written
findStudentByCPF_asWritten(students, cpf) ==
  IF \E i \in DOMAIN students : students[i].cpf = cpf
  THEN CHOOSE i \in DOMAIN students : students[i].cpf = cpf
  ELSE 0

\* StudentSet.findStudentByCPF(cpf), as the index of the student found
findStudentByCPF(students, cpf) == findStudentIndex(students, cleanCPF(cpf))

NewStudentSet == [students |-> <<>>, last |-> [op |-> "new"]]

\* StudentSet.addStudent(student)
AddStudent ==
  /\ UNCHANGED <<serverVars, comparison, browserState>>
  /\ \E student \in StudentInputs :
       LET threw == findStudentByCPF(studentSet.students,
                                     getCleanCPF(student)) # 0
       IN studentSet' =
            [students |-> IF threw THEN studentSet.students
                          ELSE Append(studentSet.students, student),
             last |-> [op |-> "addStudent", threw |-> threw,
                       before |-> studentSet.students]]

\* StudentSet.removeStudent(cpf)
RemoveStudent ==
  /\ UNCHANGED <<serverVars, comparison, browserState>>
  /\ \E cpf \in CPFStrings :
       LET index == findStudentIndex(studentSet.students, cleanCPF(cpf))
       IN studentSet' =
            [students |-> IF index = 0 THEN studentSet.students
                          ELSE splice(studentSet.students, index),
             last |-> [op |-> "removeStudent", returned |-> index # 0,
                       before |-> studentSet.students]]

\* StudentSet.updateStudent(updatedStudent)
UpdateStudent ==
  /\ UNCHANGED <<serverVars, comparison, browserState>>
  /\ \E updatedStudent \in StudentInputs :
       LET existingStudentIndex ==
             findStudentIndex(studentSet.students, getCleanCPF(updatedStudent))
       IN studentSet' =
            [students |-> IF existingStudentIndex = 0 THEN studentSet.students
                          ELSE [studentSet.students EXCEPT
                                  ![existingStudentIndex] = updatedStudent],
             last |-> [op |-> "updateStudent",
                       threw |-> existingStudentIndex = 0,
                       before |-> studentSet.students]]

NextStudentSet ==
  \/ AddStudent
  \/ RemoveStudent
  \/ UpdateStudent

(***************************************************************************)
(* Shared browser state: the module variables browser and page, and the    *)
(* asynchronous calls of the step definitions, each at its await.          *)
(* launches and pages count the launch() and newPage() calls made since    *)
(* the last closeBrowser call.                                             *)
(***************************************************************************)
Callers == 1..NumCallers

NoCall == [fn |-> "none", at |-> "idle"]

NewBrowserState ==
  [browser |-> Null, page |-> Null, launches |-> 0, pages |-> 0,
   calls |-> [p \in Callers |-> NoCall]]

\* the call of caller p moves to its next await, or returns
CallAt(p, fn, at) ==
  [browserState.calls EXCEPT ![p] = IF at = "idle" THEN NoCall
                                    ELSE [fn |-> fn, at |-> at]]

\* getBrowser() up to its await: launch() is called when browser is null
EnterGetBrowser(p, fn) ==
  IF browserState.browser = Null
  THEN browserState' = [browserState EXCEPT
                          !.launches = @ + 1,
                          !.calls = CallAt(p, fn, "launch")]
  ELSE browserState' = [browserState EXCEPT
                          !.calls = CallAt(p, fn, IF fn = "getPage"
                                                  THEN "gotBrowser"
                                                  ELSE "idle")]

\* a step definition calls getBrowser()
CallGetBrowser ==
  /\ UNCHANGED <<serverVars, comparison, studentSet>>
  /\ \E p \in Callers :
       /\ browserState.calls[p] = NoCall
       /\ EnterGetBrowser(p, "getBrowser")

\* a step definition calls getPage(), which calls getBrowser()
CallGetPage ==
  /\ UNCHANGED <<serverVars, comparison, studentSet>>
  /\ \E p \in Callers :
       /\ browserState.calls[p] = NoCall
       /\ EnterGetBrowser(p, "getPage")

\* launch() resolves: browser = await launch(...)
LaunchResolves ==
  /\ UNCHANGED <<serverVars, comparison, studentSet>>
  /\ \E p \in Callers :
       /\ browserState.calls[p].at = "launch"
       /\ browserState' =
            [browserState EXCEPT
               !.browser = JsValue(p),
               !.calls = CallAt(p, browserState.calls[p].fn,
                                IF browserState.calls[p].fn = "getPage"
                                THEN "gotBrowser" ELSE "idle")]

\* getPage() after await getBrowser(): newPage() is called when page is null
CheckPage ==
  /\ UNCHANGED <<serverVars, comparison, studentSet>>
  /\ \E p \in Callers :
       /\ browserState.calls[p].at = "gotBrowser"
       /\ IF browserState.page = Null
          THEN browserState' = [browserState EXCEPT
                                  !.pages = @ + 1,
                                  !.calls = CallAt(p, "getPage", "newPage")]
          ELSE browserState' = [browserState EXCEPT
                                  !.calls = CallAt(p, "getPage", "idle")]

\* b.newPage() resolves: page = await b.newPage()
NewPageResolves ==
  /\ UNCHANGED <<serverVars, comparison, studentSet>>
  /\ \E p \in Callers :
       /\ browserState.calls[p].at = "newPage"
       /\ browserState' = [browserState EXCEPT
                             !.page = JsValue(p),
                             !.calls = CallAt(p, "getPage", "idle")]

\* a step definition calls closeBrowser()
CallCloseBrowser ==
  /\ UNCHANGED <<serverVars, comparison, studentSet>>
  /\ \E p \in Callers :
       /\ browserState.calls[p] = NoCall
       /\ browserState' =
            [browserState EXCEPT
               !.launches = 0,
               !.pages = 0,
               !.calls = CallAt(p, "closeBrowser",
                                IF browserState.browser # Null
                                THEN "close" ELSE "idle")]

\* browser.close() resolves: browser = null; page = null
CloseResolves ==
  /\ UNCHANGED <<serverVars, comparison, studentSet>>
  /\ \E p \in Callers :
       /\ browserState.calls[p].at = "close"
       /\ browserState' = [browserState EXCEPT
                             !.browser = Null,
                             !.page = Null,
                             !.calls = CallAt(p, "closeBrowser", "idle")]

NextBrowser ==
  \/ CallGetBrowser
  \/ CallGetPage
  \/ LaunchResolves
  \/ CheckPage
  \/ NewPageResolves
  \/ CallCloseBrowser
  \/ CloseResolves

(***************************************************************************)
(* ClassComparison: the selection, reports, error and loading flag held by *)
(* the parent, and the values the handlers of the last render closed over. *)
(* A state setter called with a function applies it to the latest state;   *)
(* what a handler reads outside such a function is the rendered value.     *)
(***************************************************************************)
MAX_COMPARISON_SELECTION == 6

\* the classes prop, in list order; one of them has no enrollments
ComparisonClasses == 1..NumClasses
ClassesWithoutEnrollments == {2}

\* the classes the user clicks on, and those offered by the add control
ToggledClasses == {1, 2, NumClasses - 1}
AddedClasses == {NumClasses - 1, NumClasses}

NoFetch == [at |-> "none", ids |-> {}]

NewComparison ==
  [selected |-> {}, reports |-> {}, error |-> Null, loading |-> FALSE,
   rendered |-> [selected |-> {}, reports |-> {}],
   fetch |-> NoFetch, last |-> [op |-> "new"]]

\* the component re-renders: its handlers close over the latest state
Render ==
  /\ UNCHANGED <<serverVars, browserState, studentSet>>
  /\ comparison.rendered # [selected |-> comparison.selected,
                            reports |-> comparison.reports]
  /\ comparison' = [comparison EXCEPT
                      !.rendered = [selected |-> comparison.selected,
                                    reports |-> comparison.reports],
                      !.last = [op |-> "render"]]

\* handleClassSelectionToggle(classId)
HandleClassSelectionToggle ==
  /\ UNCHANGED <<serverVars, browserState, studentSet>>
  /\ \E classId \in ToggledClasses :
       LET prev == comparison.selected
       IN IF classId \in prev
          THEN comparison' = [comparison EXCEPT
                                !.selected = prev \ {classId},
                                !.error = Null,
                                !.last = [op |-> "toggle", refused |-> FALSE]]
          ELSE IF Cardinality(prev) >= MAX_COMPARISON_SELECTION
          THEN comparison' = [comparison EXCEPT
                                !.error = JsValue("You are not allowed to select"),
                                !.last = [op |-> "toggle", refused |-> TRUE]]
          ELSE comparison' = [comparison EXCEPT
                                !.selected = prev \cup {classId},
                                !.error = Null,
                                !.last = [op |-> "toggle", refused |-> FALSE]]

\* handleAddClassToComparison(classId); getClassReport resolves or rejects
HandleAddClassToComparison ==
  /\ UNCHANGED <<serverVars, browserState, studentSet>>
  /\ \E classId \in AddedClasses, reportLoaded \in BOOLEAN :
       IF Cardinality(comparison.rendered.selected) >= MAX_COMPARISON_SELECTION
       THEN comparison' = [comparison EXCEPT
                             !.error = JsValue("You cannot add more"),
                             !.last = [op |-> "add", refused |-> TRUE]]
       ELSE comparison' =
              [comparison EXCEPT
                 !.selected = @ \cup {classId},
                 !.reports = IF reportLoaded THEN @ \cup {classId} ELSE @,
                 !.error = IF reportLoaded THEN Null
                           ELSE JsValue("Failed to load report"),
                 !.last = [op |-> "add", refused |-> FALSE]]

\* classes.filter(c => Boolean(comparisonReports[c.id])), in list order
RECURSIVE classesWhere(_, _, _)
classesWhere(from, reports, withReport) ==
  IF from > NumClasses THEN <<>>
  ELSE (IF (from \in reports) = withReport THEN <<from>> ELSE <<>>)
         \o classesWhere(from + 1, reports, withReport)

\* prioritized.slice(0, Math.min(MAX, prioritized.length))
toSelectOf(reports) ==
  LET prioritized == classesWhere(1, reports, TRUE)
                       \o classesWhere(1, reports, FALSE)
      n == IF MAX_COMPARISON_SELECTION < Len(prioritized)
           THEN MAX_COMPARISON_SELECTION ELSE Len(prioritized)
  IN {prioritized[i] : i \in 1..n}

\* handleToggleSelectAllVisible()
HandleToggleSelectAllVisible ==
  /\ UNCHANGED <<serverVars, browserState, studentSet>>
  /\ LET toSelect == toSelectOf(comparison.rendered.reports)
         allSelected == toSelect \subseteq comparison.rendered.selected
     IN comparison' = [comparison EXCEPT
                         !.selected = IF allSelected THEN {} ELSE toSelect,
                         !.error = Null,
                         !.last = [op |-> "selectAll"]]

NextSelection ==
  \/ Render
  \/ HandleClassSelectionToggle
  \/ HandleAddClassToComparison
  \/ HandleToggleSelectAllVisible

\* a filter that finds no class empty
emptyClassesOf_none(selectedIds) == {}

\* the selected classes that are listed and have no enrollments
emptyClassesOf(selectedIds) ==
  {id \in selectedIds \cap ComparisonClasses : id \in ClassesWithoutEnrollments}

\* handleCompareClasses() up to its await; the compare button is disabled
\* while isLoadingComparison is set
HandleCompareClasses ==
  /\ UNCHANGED <<serverVars, browserState, studentSet>>
  /\ ~comparison.loading
  /\ LET selectedIds == comparison.rendered.selected
         before == comparison.reports
     IN IF Cardinality(selectedIds) < 2
        THEN comparison' =
               [comparison EXCEPT
                  !.error = JsValue("Please select at least 2 classes"),
                  !.loading = FALSE,
                  !.last = [op |-> "compare", ids |-> selectedIds,
                            fetched |-> FALSE, before |-> before]]
        ELSE IF emptyClassesOf(selectedIds) # {}
        THEN comparison' =
               [comparison EXCEPT
                  !.error = JsValue("has no enrolled students"),
                  !.loading = FALSE,
                  !.last = [op |-> "compare", ids |-> selectedIds,
                            fetched |-> FALSE, before |-> before]]
        ELSE comparison' =
               [comparison EXCEPT
                  !.error = Null,
                  !.loading = TRUE,
                  !.fetch = [at |-> "pending", ids |-> selectedIds],
                  !.last = [op |-> "compare", ids |-> selectedIds,
                            fetched |-> TRUE, before |-> before]]

\* fetchClassReportsForComparison resolves, with an error or with reports
FetchResolves ==
  /\ UNCHANGED <<serverVars, browserState, studentSet>>
  /\ comparison.fetch.at = "pending"
  /\ \E failed \in BOOLEAN :
       comparison' =
         [comparison EXCEPT
            !.reports = IF failed THEN @ ELSE comparison.fetch.ids,
            !.error = IF failed THEN JsValue("Failed to fetch reports")
                     ELSE Null,
            !.loading = FALSE,
            !.fetch = NoFetch,
            !.last = [op |-> "fetchResolved", ids |-> comparison.fetch.ids,
                      failed |-> failed]]

\* fetchClassReportsForComparison rejects: the await throws
FetchRejects ==
  /\ UNCHANGED <<serverVars, browserState, studentSet>>
  /\ comparison.fetch.at = "pending"
  /\ comparison' = [comparison EXCEPT
                      !.fetch = NoFetch,
                      !.last = [op |-> "fetchRejected",
                                ids |-> comparison.fetch.ids]]

NextCompare ==
  \/ Render
  \/ HandleClassSelectionToggle
  \/ HandleCompareClasses
  \/ FetchResolves
  \/ FetchRejects

InitOthers ==
  /\ comparison = NewComparison
  /\ browserState = NewBrowserState
  /\ studentSet = NewStudentSet

(***************************************************************************)
(* The state machine: one class, and the value returned by the last call.  *)
(* ledger is the callers' account of what they asked for: the students     *)
(* enrolled and not unenrolled since, the last grade set for each student  *)
(* and goal, what the last call other than generate did to the class, and  *)
(* the number of generate calls since that call (counted up to 2).         *)
(***************************************************************************)
NewClass == [topic |-> "ESS", semester |-> 1, year |-> 2025,
             enrollments |-> <<>>]

NewLedger == [enrolled |-> {}, latest |-> {}, last |-> "", reports |-> 0]

Init ==
  /\ InitOthers
  /\ classObj = NewClass
  /\ result = [op |-> "new"]
  /\ ledger = NewLedger

\* Class.addEnrollment(student)
AddEnrollment ==
  /\ UNCHANGED otherVars
  /\ \E cpf \in Students :
       LET existingEnrollment ==
             findEnrollmentByStudentCPF(classObj.enrollments, cpf)
           threw == existingEnrollment # 0
       IN /\ IF threw
             THEN UNCHANGED classObj
             ELSE classObj' = [classObj EXCEPT !.enrollments =
                                 Append(@, Enrollment(Student(cpf)))]
          /\ result' = [op |-> "addEnrollment", threw |-> threw]
          /\ ledger' = [ledger EXCEPT !.enrolled = @ \cup {cpf},
                                      !.last = IF threw THEN "" ELSE "enrolled",
                                      !.reports = 0]

\* Class.removeEnrollment(studentCPF)
RemoveEnrollment ==
  /\ UNCHANGED otherVars
  /\ \E cpf \in Students :
       LET index == findIndex(classObj.enrollments, cpf)
       IN /\ IF index = 0
             THEN UNCHANGED classObj
             ELSE classObj' = [classObj EXCEPT !.enrollments = splice(@, index)]
          /\ result' = [op |-> "removeEnrollment", returned |-> index # 0]
          /\ ledger' = [enrolled |-> ledger.enrolled \ {cpf},
                        latest |-> {x \in ledger.latest : x[1] # cpf},
                        last |-> IF index = 0 THEN "" ELSE "unenrolled",
                        reports |-> 0]

\* setting the grade of a goal for an enrolled student
SetGrade ==
  /\ UNCHANGED otherVars
  /\ \E cpf \in Students, goal \in Goals, grade \in GradeInputs :
       LET index == findEnrollmentByStudentCPF(classObj.enrollments, cpf)
       IN /\ index # 0
          /\ IF ~isValidGrade(grade)
             THEN /\ result' = [op |-> "setGrade", threw |-> TRUE]
                  /\ ledger' = [ledger EXCEPT !.last = "rejected", !.reports = 0]
                  /\ UNCHANGED classObj
             ELSE LET had == findEvaluation(
                               classObj.enrollments[index].evaluations, goal) # 0
                  IN /\ had \/ CountRecords(classObj.enrollments) < MaxRecords
                     /\ classObj' =
                          [classObj EXCEPT !.enrollments[index].evaluations =
                             addOrUpdateEvaluation(@, goal, grade)]
                     /\ result' = [op |-> "setGrade", threw |-> FALSE]
                     /\ ledger' =
                          [ledger EXCEPT
                             !.latest = {x \in @ : ~(x[1] = cpf /\ x[2] = goal)}
                                          \cup {<<cpf, goal, grade>>},
                             !.last =
                               IF ~had THEN "graded"
                               ELSE IF \E x \in ledger.latest :
                                         /\ x[1] = cpf /\ x[2] = goal
                                         /\ GradeRank(x[3]) < GradeRank(grade)
                                    THEN "raised" ELSE "replaced",
                             !.reports = 0]

\* a generate that reverses the enrollments of the class it reads
Generate_reordering ==
  /\ UNCHANGED otherVars
  /\ \E now \in ClockReadings :
       /\ result' = [op |-> "generate", report |-> generate(classObj, now)]
       /\ classObj' = [classObj EXCEPT !.enrollments =
                         [i \in DOMAIN @ |-> @[Len(@) + 1 - i]]]
       /\ ledger' = [ledger EXCEPT !.reports = IF @ = 0 THEN 1 ELSE 2]

\* new Report(classObj).generate()
Generate ==
  /\ UNCHANGED otherVars
  /\ \E now \in ClockReadings :
       /\ result' = [op |-> "generate", report |-> generate(classObj, now)]
       /\ ledger' = [ledger EXCEPT !.reports = IF @ = 0 THEN 1 ELSE 2]
       /\ UNCHANGED classObj

Next ==
  \/ AddEnrollment
  \/ RemoveEnrollment
  \/ SetGrade
  \/ Generate

Spec == Init /\ [][Next]_vars

SpecStudentSet == Init /\ [][NextStudentSet]_vars

SpecBrowser == Init /\ [][NextBrowser]_vars

SpecSelection == Init /\ [][NextSelection]_vars

SpecCompare == Init /\ [][NextCompare]_vars

\* the fetch of a compare call settles: its promise resolves or rejects
SpecCompareFair == SpecCompare /\ WF_vars(FetchResolves \/ FetchRejects)

(***************************************************************************)
(* Class.fromJSON: the class is built from stored data and the known       *)
(* students, and then enrolls and unenrolls students.                      *)
(***************************************************************************)
\* one element of data.enrollments: the student's CPF and the evaluations
StoredEnrollments ==
  {[student |-> [cpf |-> cpf], evaluations |-> evaluations] :
     cpf \in Students,
     evaluations \in {<<>>, <<[goal |-> 1, grade |-> "MPA"]>>}}

RECURSIVE StoredLists(_)
StoredLists(len) ==
  IF len = 0 THEN {<<>>}
  ELSE LET shorter == StoredLists(len - 1)
       IN shorter \cup {Append(l, e) : l \in {x \in shorter : Len(x) = len - 1},
                                        e \in StoredEnrollments}

\* allStudents.find(s => s.getCPF() === enrollmentData.student.cpf)
findStudent(allStudents, cpf) ==
  IF cpf \in allStudents THEN Student(cpf) ELSE Undefined

\* Enrollment.fromJSON(enrollmentData, student)
EnrollmentFromJSON(enrollmentData, student) ==
  [student |-> student, evaluations |-> enrollmentData.evaluations]

\* a fromJSON that leaves out the enrollments whose student is not found
FromJSON_skipping ==
  /\ UNCHANGED otherVars
  /\ \E enrollmentsData \in StoredLists(MaxStored), allStudents \in SUBSET Students :
       LET found == SelectSeq(enrollmentsData,
                              LAMBDA e : findStudent(allStudents, e.student.cpf)
                                           # Undefined)
       IN /\ classObj' = [NewClass EXCEPT !.enrollments =
                            [i \in DOMAIN found |->
                               EnrollmentFromJSON(
                                 found[i],
                                 findStudent(allStudents, found[i].student.cpf))]]
          /\ result' = [op |-> "fromJSON", threw |-> FALSE,
                        data |-> enrollmentsData, allStudents |-> allStudents]
          /\ ledger' = [NewLedger EXCEPT
                          !.enrolled = {found[i].student.cpf : i \in DOMAIN found}]

\* Class.fromJSON(data, allStudents)
FromJSON ==
  /\ UNCHANGED otherVars
  /\ \E enrollmentsData \in StoredLists(MaxStored), allStudents \in SUBSET Students :
       LET notFound == \E i \in DOMAIN enrollmentsData :
                         findStudent(allStudents, enrollmentsData[i].student.cpf)
                           = Undefined
           enrollments ==
             [i \in DOMAIN enrollmentsData |->
                EnrollmentFromJSON(
                  enrollmentsData[i],
                  findStudent(allStudents, enrollmentsData[i].student.cpf))]
       IN /\ result' = [op |-> "fromJSON", threw |-> notFound,
                        data |-> enrollmentsData, allStudents |-> allStudents]
          /\ IF notFound
             THEN /\ ledger' = [ledger EXCEPT !.last = "", !.reports = 0]
                  /\ UNCHANGED classObj
             ELSE /\ classObj' = [NewClass EXCEPT !.enrollments = enrollments]
                  /\ ledger' =
                       [enrolled |-> {enrollmentsData[i].student.cpf :
                                        i \in DOMAIN enrollmentsData},
                        latest |-> UNION {{<<enrollmentsData[i].student.cpf,
                                             enrollmentsData[i].evaluations[j].goal,
                                             enrollmentsData[i].evaluations[j].grade>> :
                                             j \in DOMAIN enrollmentsData[i].evaluations} :
                                          i \in DOMAIN enrollmentsData},
                        last |-> "", reports |-> 0]

NextJSON ==
  \/ FromJSON
  \/ AddEnrollment
  \/ RemoveEnrollment

SpecJSON == Init /\ [][NextJSON]_vars

(***************************************************************************)
(* GET /api/classes/:classId/report, on a server that holds the one class. *)
(***************************************************************************)
RequestedIds == {getClassId(NewClass), <<"nonexistent-class-id-12345">>}

\* the class with the requested id, if the server holds it
findClass(c, classId) ==
  IF getClassId(c) = classId THEN c ELSE Undefined

\* a handler that answers an unknown id with the report of a new class
respondReport_empty(c, classId, now) ==
  [op |-> "requestReport", classId |-> classId, status |-> 200,
   body |-> generate(IF findClass(c, classId) = Undefined THEN NewClass ELSE c,
                     now)]

\* the response: 404 with an error message, or 200 with the report
respondReport(c, classId, now) ==
  IF findClass(c, classId) = Undefined
  THEN [op |-> "requestReport", classId |-> classId, status |-> 404,
        body |-> [error |-> "Class not found"]]
  ELSE [op |-> "requestReport", classId |-> classId, status |-> 200,
        body |-> generate(c, now)]

RequestReport ==
  /\ UNCHANGED otherVars
  /\ \E classId \in RequestedIds, now \in ClockReadings :
       /\ result' = respondReport(classObj, classId, now)
       /\ UNCHANGED <<classObj, ledger>>

NextAPI ==
  \/ AddEnrollment
  \/ SetGrade
  \/ RequestReport

SpecAPI == Init /\ [][NextAPI]_vars

(***************************************************************************)
(* calculateAverage, the average calculator over optional numeric grades,  *)
(* applied to every list of up to MaxGrades entries.                       *)
(***************************************************************************)
OptionalGrades == {Null} \cup {JsValue(n) : n \in {0, 5, 7, 10}}

RECURSIVE GradeLists(_)
GradeLists(len) ==
  IF len = 0 THEN {<<>>}
  ELSE LET shorter == GradeLists(len - 1)
       IN shorter \cup {Append(l, g) : l \in {x \in shorter : Len(x) = len - 1},
                                        g \in OptionalGrades}

\* grades.filter(g => g !== null && g !== undefined)
presentGrades(grades) == SelectSeq(grades, LAMBDA g : g.t = "value")

RECURSIVE sumOfGrades(_)
sumOfGrades(grades) ==
  IF grades = <<>> THEN 0
  ELSE Head(grades).v + sumOfGrades(Tail(grades))

\* an average that counts an absent grade as 0
calculateAverage_absentAsZero(grades) ==
  IF Len(grades) = 0 THEN [num |-> 0, den |-> 1]
  ELSE [num |-> sumOfGrades(presentGrades(grades)), den |-> Len(grades)]

\* the mean of the present grades, 0 when there is none; not rounded
calculateAverage(grades) ==
  LET present == presentGrades(grades)
  IN IF Len(present) = 0 THEN [num |-> 0, den |-> 1]
     ELSE [num |-> sumOfGrades(present), den |-> Len(present)]

InitAverage ==
  /\ InitOthers
  /\ classObj = NewClass
  /\ ledger = NewLedger
  /\ result \in {[op |-> "grades", grades |-> l] : l \in GradeLists(MaxGrades)}

CalculateAverage ==
  /\ result.op = "grades"
  /\ result' = [op |-> "calculateAverage", grades |-> result.grades,
                average |-> calculateAverage(result.grades)]
  /\ UNCHANGED <<classObj, ledger>>
  /\ UNCHANGED otherVars

NextAverage == CalculateAverage

SpecAverage == InitAverage /\ [][NextAverage]_vars

(***************************************************************************)
(* A class of up to MaxClassSize students, all graded on one goal: the     *)
(* class reached by enrolling each student and setting the grade once.     *)
(***************************************************************************)
LargeClass(nMA, nMPA, nMANA) ==
  [topic |-> "ESS", semester |-> 1, year |-> 2025,
   enrollments |->
     [i \in 1..(nMA + nMPA + nMANA) |->
        [student |-> Student(i),
         evaluations |->
           <<[goal |-> 1,
              grade |-> IF i <= nMA THEN "MA"
                        ELSE IF i <= nMA + nMPA THEN "MPA" ELSE "MANA"]>>]]]

InitLargeClass ==
  /\ InitOthers
  /\ \E nMA \in 0..MaxClassSize, nMPA \in 0..MaxClassSize,
        nMANA \in 0..MaxClassSize :
       /\ nMA + nMPA + nMANA \in 1..MaxClassSize
       /\ classObj = LargeClass(nMA, nMPA, nMANA)
       /\ ledger = [enrolled |-> 1..(nMA + nMPA + nMANA),
                    latest |-> {<<i, 1, LargeClass(nMA, nMPA, nMANA)
                                          .enrollments[i].evaluations[1].grade>> :
                                  i \in 1..(nMA + nMPA + nMANA)},
                    last |-> "graded", reports |-> 0]
  /\ result = [op |-> "new"]

NextLargeClass == Generate

SpecLargeClass == InitLargeClass /\ [][NextLargeClass]_vars

(***************************************************************************)
(* Properties of the report.  Generate leaves the class unchanged and      *)
(* every other operation overwrites result, so whenever result holds a     *)
(* report it is the report of the current classObj.                        *)
(***************************************************************************)
IsReport == result.op = "generate"

Report == result.report

EnrollmentsOf == classObj.enrollments

\* the records of a goal in the class, as (enrollment, position) pairs
RecordsOfGoal(goal) ==
  UNION {{<<i, j>> : j \in {p \in DOMAIN EnrollmentsOf[i].evaluations :
                                EnrollmentsOf[i].evaluations[p].goal = goal}} :
         i \in DOMAIN EnrollmentsOf}

GradeOfRecord(rec) == EnrollmentsOf[rec[1]].evaluations[rec[2]].grade

GoalsWithRecords ==
  {g \in Goals : RecordsOfGoal(g) # {}}

\* the sum of the grade values of a set of records
RECURSIVE SumOfRecords(_)
SumOfRecords(recs) ==
  IF recs = {} THEN 0
  ELSE LET rec == CHOOSE x \in recs : TRUE
       IN gradeValues(GradeOfRecord(rec)) + SumOfRecords(recs \ {rec})

\* the sum of the grade values of one enrollment's records
EnrollmentSum(i) ==
  SumOfRecords({<<i, j>> : j \in DOMAIN EnrollmentsOf[i].evaluations})

AllGraded(i, grade) ==
  /\ Len(EnrollmentsOf[i].evaluations) > 0
  /\ \A j \in DOMAIN EnrollmentsOf[i].evaluations :
       EnrollmentsOf[i].evaluations[j].grade = grade

\* C1: the five status counts of a report sum to totalEnrolled
C1_PartitionLaw ==
  IsReport =>
    JsAdd(JsAdd(JsAdd(JsAdd(JsGet(Report, "approvedCount"),
                            JsGet(Report, "approvedFinalCount")),
                      JsGet(Report, "notApprovedCount")),
                JsGet(Report, "failedByAbsenceCount")),
          JsGet(Report, "pendingCount"))
      = JsGet(Report, "totalEnrolled")

NoEvaluations(i) == Len(EnrollmentsOf[i].evaluations) = 0

\* C3: an enrollment without evaluations is PENDING and counted in
\* pendingCount; when no enrollment has evaluations pendingCount is
\* totalEnrolled and approvedCount and notApprovedCount are 0
C3_PendingWithoutEvaluations ==
  IsReport =>
    /\ \A i \in DOMAIN EnrollmentsOf :
         NoEvaluations(i) => Report.students[i].status = "PENDING"
    /\ (\A i \in DOMAIN EnrollmentsOf : NoEvaluations(i)) =>
         /\ JsGet(Report, "pendingCount") = JsGet(Report, "totalEnrolled")
         /\ JsGet(Report, "approvedCount") = JsValue(0)
         /\ JsGet(Report, "notApprovedCount") = JsValue(0)

\* C4: studentsAverage is null when the class has no enrollment or no
\* enrollment has an evaluation
C4_NoDataAverage ==
  (IsReport /\ \A i \in DOMAIN EnrollmentsOf : NoEvaluations(i)) =>
    JsGet(Report, "studentsAverage") = Null

\* C5: the final average of a student is null without evaluations and the
\* mean grade value rounded to 2 decimals otherwise
C5_FinalAverage ==
  IsReport =>
    \A i \in DOMAIN EnrollmentsOf :
      LET n == Len(EnrollmentsOf[i].evaluations)
          finalGrade == JsGet(Report.students[i], "finalGrade")
      IN IF n = 0 THEN finalGrade = Null
         ELSE /\ finalGrade.t = "value"
              /\ 2 * (finalGrade.v * n - 100 * EnrollmentSum(i)) <= n
              /\ 2 * (100 * EnrollmentSum(i) - finalGrade.v * n) <= n

ReportFields ==
  {"classId", "topic", "semester", "year", "totalEnrolled", "studentsAverage",
   "approvedCount", "approvedFinalCount", "notApprovedCount",
   "failedByAbsenceCount", "pendingCount", "evaluationPerformance",
   "students", "generatedAt"}

\* C6: every report has the 14 fields, none of them undefined or NaN
C6_StableFieldSet ==
  IsReport =>
    \A key \in ReportFields :
      /\ key \in DOMAIN Report
      /\ JsGet(Report, key).t \notin {"undefined", "NaN"}

\* C7: approvedFinalCount and failedByAbsenceCount are 0 and no student
\* entry is APPROVED_FINAL or FAILED_BY_ABSENCE
C7_ReservedStatusesUnused ==
  IsReport =>
    /\ JsGet(Report, "approvedFinalCount") = JsValue(0)
    /\ JsGet(Report, "failedByAbsenceCount") = JsValue(0)
    /\ \A i \in DOMAIN Report.students :
         Report.students[i].status \notin {"APPROVED_FINAL", "FAILED_BY_ABSENCE"}

\* C8: evaluationPerformance has exactly one entry for each goal that has a
\* record in the class, in strictly ascending order of goal name, and is
\* empty when the class has no evaluation
C8_PerformanceGoals ==
  IsReport =>
    LET performance == Report.evaluationPerformance
    IN /\ {performance[k].goal : k \in DOMAIN performance} = GoalsWithRecords
       /\ Len(performance) = Cardinality(GoalsWithRecords)
       /\ \A k \in 1..(Len(performance) - 1) :
            performance[k].goal < performance[k + 1].goal
       /\ (\A i \in DOMAIN EnrollmentsOf : NoEvaluations(i)) =>
            performance = <<>>

\* C8 witness: a report on a class whose first record is of a goal that
\* sorts after another goal of the class
C8_Witness ==
  /\ IsReport
  /\ Len(Report.evaluationPerformance) > 1
  /\ \E i \in DOMAIN EnrollmentsOf :
       /\ \A h \in 1..(i - 1) : NoEvaluations(h)
       /\ Len(EnrollmentsOf[i].evaluations) > 0
       /\ EnrollmentsOf[i].evaluations[1].goal
            > Report.evaluationPerformance[1].goal

\* C9: evaluatedStudents of a goal is the number of enrollments with a
\* record for it, each distribution count is the number of its records with
\* that grade, and the three counts sum to evaluatedStudents
C9_GoalCounts ==
  IsReport =>
    \A k \in DOMAIN Report.evaluationPerformance :
      LET entry == Report.evaluationPerformance[k]
          recs == RecordsOfGoal(entry.goal)
      IN /\ entry.evaluatedStudents = Cardinality({rec[1] : rec \in recs})
         /\ \A grade \in Grades :
              entry.gradeDistribution[grade] =
                Cardinality({rec \in recs : GradeOfRecord(rec) = grade})
         /\ entry.gradeDistribution.MANA + entry.gradeDistribution.MPA
              + entry.gradeDistribution.MA = entry.evaluatedStudents

\* C9 witness: a report with a goal evaluated for two students with
\* different grades
C9_Witness ==
  /\ IsReport
  /\ \E k \in DOMAIN Report.evaluationPerformance :
       LET entry == Report.evaluationPerformance[k]
       IN /\ entry.evaluatedStudents > 1
          /\ \E grade \in Grades :
               /\ entry.gradeDistribution[grade] > 0
               /\ entry.gradeDistribution[grade] < entry.evaluatedStudents

\* the sum of the grade values of a goal's records
RECURSIVE SumOfGoalRecords(_)
SumOfGoalRecords(recs) ==
  IF recs = {} THEN 0
  ELSE LET rec == CHOOSE x \in recs : TRUE
       IN gradeValuesPerformance(GradeOfRecord(rec))
            + SumOfGoalRecords(recs \ {rec})

\* C10: averageGrade of a goal is the mean of the grade values of its
\* records, rounded half-up to 2 decimals
C10_AverageGradeHalfUp ==
  IsReport =>
    \A k \in DOMAIN Report.evaluationPerformance :
      LET entry == Report.evaluationPerformance[k]
          recs == RecordsOfGoal(entry.goal)
      IN entry.averageGrade =
           RoundHalfUp100(SumOfGoalRecords(recs), Cardinality(recs))

EnrollmentRecords(i) == {<<i, j>> : j \in DOMAIN EnrollmentsOf[i].evaluations}

GradedEnrollments == {i \in DOMAIN EnrollmentsOf : ~NoEvaluations(i)}

\* the product of the record counts of a set of enrollments
RECURSIVE ProductOfCounts(_)
ProductOfCounts(S) ==
  IF S = {} THEN 1
  ELSE LET i == CHOOSE x \in S : TRUE
       IN Len(EnrollmentsOf[i].evaluations) * ProductOfCounts(S \ {i})

\* the sum of the individual averages of a set of graded enrollments, as the
\* numerator over the denominator den, a multiple of every record count
RECURSIVE SumOfAverages(_, _)
SumOfAverages(S, den) ==
  IF S = {} THEN 0
  ELSE LET i == CHOOSE x \in S : TRUE
       IN EnrollmentSum(i) * (den \div Len(EnrollmentsOf[i].evaluations))
            + SumOfAverages(S \ {i}, den)

\* x hundredths is num/den rounded to 2 decimals (a tie may go either way)
IsRounded(x, num, den) ==
  /\ 2 * (x * den - 100 * num) <= den
  /\ 2 * (100 * num - x * den) <= den

\* C11: studentsAverage is the mean of the individual averages of the
\* enrollments that have evaluations, rounded to 2 decimals; an enrollment
\* without evaluations is in neither the numerator nor the denominator
C11_ClassAverageExcludesAbsent ==
  (IsReport /\ GradedEnrollments # {}) =>
    LET den == ProductOfCounts(GradedEnrollments)
        studentsAverage == JsGet(Report, "studentsAverage")
    IN /\ studentsAverage.t = "value"
       /\ IsRounded(studentsAverage.v,
                    SumOfAverages(GradedEnrollments, den),
                    den * Cardinality(GradedEnrollments))

AllRecordsGraded(recs, grade) ==
  /\ recs # {}
  /\ \A rec \in recs : GradeOfRecord(rec) = grade

\* the value the grade scale MA 10, MPA 7, MANA 0 gives a grade, in hundredths
ScaleWithMANAZero(grade) ==
  CASE grade = "MA" -> 1000
    [] grade = "MPA" -> 700
    [] grade = "MANA" -> 0

\* C12: every use of the grade scale maps MA to 10, MPA to 7 and MANA to 0:
\* a student whose evaluations are all MANA has final average 0.0, and a goal
\* whose records all carry one grade has that grade's value as average
C12_ScaleWithMANAZero ==
  IsReport =>
    \A grade \in Grades :
      /\ \A i \in DOMAIN EnrollmentsOf :
           AllGraded(i, grade) =>
             JsGet(Report.students[i], "finalGrade")
               = JsValue(ScaleWithMANAZero(grade))
      /\ \A k \in DOMAIN Report.evaluationPerformance :
           LET entry == Report.evaluationPerformance[k]
           IN AllRecordsGraded(RecordsOfGoal(entry.goal), grade) =>
                entry.averageGrade = ScaleWithMANAZero(grade)

CountOfGrade(recs, grade) ==
  Cardinality({rec \in recs : GradeOfRecord(rec) = grade})

\* the sum of a set of records under the scale MA 10, MPA mpa, MANA mana
ScaleSum(recs, mpa, mana) ==
  10 * CountOfGrade(recs, "MA") + mpa * CountOfGrade(recs, "MPA")
    + mana * CountOfGrade(recs, "MANA")

\* every number of the report is computed under the scale MA 10, MPA mpa,
\* MANA mana: the final average and the status of each graded student, the
\* average of each goal, and the class average of a class whose students
\* have one evaluation each
UsesOneScale(mpa, mana) ==
  /\ \A i \in GradedEnrollments :
       LET recs == EnrollmentRecords(i)
           n == Cardinality(recs)
       IN /\ IsRounded(Report.students[i].finalGrade,
                       ScaleSum(recs, mpa, mana), n)
          /\ (Report.students[i].status = "APPROVED")
               <=> (ScaleSum(recs, mpa, mana) >= 7 * n)
  /\ \A k \in DOMAIN Report.evaluationPerformance :
       LET entry == Report.evaluationPerformance[k]
           recs == RecordsOfGoal(entry.goal)
       IN IsRounded(entry.averageGrade, ScaleSum(recs, mpa, mana),
                    Cardinality(recs))
  /\ (\A i \in DOMAIN EnrollmentsOf :
        Len(EnrollmentsOf[i].evaluations) = 1) =>
       IsRounded(Report.studentsAverage,
                 ScaleSum(UNION {EnrollmentRecords(i) :
                                   i \in DOMAIN EnrollmentsOf}, mpa, mana),
                 Len(EnrollmentsOf))

\* C13: within one report a single value per grade symbol, with
\* value(MA) = 10 > value(MPA) > value(MANA), underlies the per-student
\* averages and statuses, the class average and the per-goal averages
C13_OneScalePerReport ==
  IsReport =>
    \E mpa \in 1..9 :
      \E mana \in 0..8 :
        /\ mana < mpa
        /\ UsesOneScale(mpa, mana)

\* C13 witness: a report over a MANA record and a record of another grade,
\* whose student average and goal average both depend on the MANA value
C13_Witness ==
  /\ IsReport
  /\ \E i \in DOMAIN EnrollmentsOf :
       /\ AllGraded(i, "MANA")
       /\ Report.students[i].finalGrade > 0
  /\ \E k \in DOMAIN Report.evaluationPerformance :
       LET entry == Report.evaluationPerformance[k]
       IN /\ entry.gradeDistribution["MANA"] > 0
          /\ entry.gradeDistribution["MA"] + entry.gradeDistribution["MPA"] > 0

IsAverage == result.op = "calculateAverage"

PresentPositions(grades) == {i \in DOMAIN grades : grades[i] # Null}

RECURSIVE SumAt(_, _)
SumAt(grades, positions) ==
  IF positions = {} THEN 0
  ELSE LET i == CHOOSE x \in positions : TRUE
       IN grades[i].v + SumAt(grades, positions \ {i})

\* C14: calculateAverage returns the sum of the present grades divided by
\* their number, so 7.5 for [10, absent, 5], and 0 when the list is empty or
\* holds no present grade
C14_AverageOfPresent ==
  IsAverage =>
    LET grades == result.grades
        present == PresentPositions(grades)
        average == result.average
    IN /\ average.den > 0
       /\ IF present = {} THEN average.num = 0
          ELSE average.num * Cardinality(present)
                 = SumAt(grades, present) * average.den
       /\ grades = <<JsValue(10), Null, JsValue(5)>> =>
            2 * average.num = 15 * average.den

\* C14 witness: the average of [10, absent, 5] is 15/2
C14_Witness ==
  /\ IsAverage
  /\ result.grades = <<JsValue(10), Null, JsValue(5)>>
  /\ result.average = [num |-> 15, den |-> 2]

StudentIdsOf(report) ==
  {report.students[i].studentId : i \in DOMAIN report.students}

\* C15: the report generated after any sequence of enroll, unenroll and grade
\* calls shows the students enrolled and not unenrolled since, each once and
\* under their name, and totalEnrolled is their number
C15_ReadAfterWrite ==
  IsReport =>
    /\ JsGet(Report, "totalEnrolled") = JsValue(Cardinality(ledger.enrolled))
    /\ Len(Report.students) = Cardinality(ledger.enrolled)
    /\ StudentIdsOf(Report) = ledger.enrolled
    /\ \A i \in DOMAIN Report.students :
         Report.students[i].name = StudentName(Report.students[i].studentId)

\* C15 witness: the first report after an unenrollment, with the other
\* student still listed
C15_Witness ==
  /\ IsReport
  /\ ledger.last = "unenrolled"
  /\ ledger.reports = 1
  /\ Cardinality(ledger.enrolled) = 1
  /\ Report.totalEnrolled = 1
  /\ StudentIdsOf(Report) = ledger.enrolled

\* the last grades set for a student, as (student, goal, grade) triples
LatestOf(cpf) == {x \in ledger.latest : x[1] = cpf}

\* the stored records of an enrollment, as (student, goal, grade) triples
StoredOf(i) ==
  {<<EnrollmentsOf[i].student.cpf, EnrollmentsOf[i].evaluations[j].goal,
     EnrollmentsOf[i].evaluations[j].grade>> :
     j \in DOMAIN EnrollmentsOf[i].evaluations}

RECURSIVE SumOfLatest(_)
SumOfLatest(triples) ==
  IF triples = {} THEN 0
  ELSE LET x == CHOOSE y \in triples : TRUE
       IN gradeValues(x[3]) + SumOfLatest(triples \ {x})

\* C16: an enrollment holds at most one record per goal, its records are the
\* last grades set for its student, and the report's status, final average
\* and per-goal distribution are those of the last grades
C16_GradeReplaces ==
  /\ \A i \in DOMAIN EnrollmentsOf :
       /\ \A j, k \in DOMAIN EnrollmentsOf[i].evaluations :
            EnrollmentsOf[i].evaluations[j].goal
              = EnrollmentsOf[i].evaluations[k].goal => j = k
       /\ StoredOf(i) = LatestOf(EnrollmentsOf[i].student.cpf)
  /\ IsReport =>
       /\ \A i \in DOMAIN Report.students :
            LET latest == LatestOf(Report.students[i].studentId)
                n == Cardinality(latest)
            IN n > 0 =>
                 /\ (Report.students[i].status = "APPROVED")
                      <=> (SumOfLatest(latest) >= 7 * n)
                 /\ IsRounded(Report.students[i].finalGrade,
                              SumOfLatest(latest), n)
       /\ \A k \in DOMAIN Report.evaluationPerformance :
            LET entry == Report.evaluationPerformance[k]
            IN \A grade \in Grades :
                 entry.gradeDistribution[grade]
                   = Cardinality({x \in ledger.latest :
                                    x[2] = entry.goal /\ x[3] = grade})

\* C16 witness: the first report after a grade was replaced by MA, for a
\* student who now holds two records, both MA, and is APPROVED
C16_Witness ==
  /\ IsReport
  /\ ledger.last = "replaced"
  /\ ledger.reports = 1
  /\ \E i \in DOMAIN EnrollmentsOf :
       /\ Len(EnrollmentsOf[i].evaluations) = 2
       /\ AllGraded(i, "MA")
       /\ Report.students[i].status = "APPROVED"
       /\ Report.students[i].finalGrade = 1000

\* a report without its generatedAt field
ReportBody(report) ==
  [field \in DOMAIN report \ {"generatedAt"} |-> report[field]]

C18_GenerateReadsOnly ==
  [][result'.op = "generate" => classObj' = classObj]_vars

\* C18 witness: a report of a class whose enrollments and records are not in
\* the sorted order the report uses, the class still holding them so
C18_Witness ==
  /\ IsReport
  /\ Len(EnrollmentsOf) = 2
  /\ EnrollmentsOf[1].student.cpf > EnrollmentsOf[2].student.cpf
  /\ Len(EnrollmentsOf[1].evaluations) = 2
  /\ EnrollmentsOf[1].evaluations[1].goal > EnrollmentsOf[1].evaluations[2].goal
  /\ Len(Report.evaluationPerformance) = 2
  /\ Report.evaluationPerformance[1].goal < Report.evaluationPerformance[2].goal

\* C19: after any sequence of fromJSON, addEnrollment and removeEnrollment
\* no two enrollments of the class are of the same student
C19_UniqueStudents ==
  \A i, j \in DOMAIN EnrollmentsOf :
    EnrollmentsOf[i].student.cpf = EnrollmentsOf[j].student.cpf => i = j

RECURSIVE SumOfDistribution(_, _)
SumOfDistribution(distribution, grades) ==
  IF grades = {} THEN 0
  ELSE LET grade == CHOOSE g \in grades : TRUE
       IN distribution[grade] + SumOfDistribution(distribution, grades \ {grade})

\* C20: a grade symbol other than MA, MPA, MANA is never stored, and every
\* average and grade count of a report is a number computed from records of
\* those three symbols only
C20_OnlyKnownGrades ==
  /\ \A i \in DOMAIN EnrollmentsOf :
       \A j \in DOMAIN EnrollmentsOf[i].evaluations :
         EnrollmentsOf[i].evaluations[j].grade \in Grades
  /\ \A x \in ledger.latest : x[3] \in Grades
  /\ IsReport =>
       /\ Report.studentsAverage \in 0..1000
       /\ \A i \in DOMAIN Report.students :
            Report.students[i].finalGrade \in 0..1000
       /\ \A k \in DOMAIN Report.evaluationPerformance :
            LET entry == Report.evaluationPerformance[k]
            IN /\ entry.averageGrade \in 0..1000
               /\ DOMAIN entry.gradeDistribution = Grades
               /\ SumOfDistribution(entry.gradeDistribution, Grades)
                    = Cardinality(RecordsOfGoal(entry.goal))

\* C20 witness: the first report after an unrecognized symbol was rejected
\* for a student who holds a record
C20_Witness ==
  /\ IsReport
  /\ ledger.last = "rejected"
  /\ ledger.reports = 1
  /\ \E i \in DOMAIN EnrollmentsOf :
       /\ Len(EnrollmentsOf[i].evaluations) > 0
       /\ Report.students[i].finalGrade \in {400, 700, 1000}

IsFromJSON == result.op = "fromJSON"

Unresolved(data, allStudents) ==
  {i \in DOMAIN data : data[i].student.cpf \notin allStudents}

\* C21: fromJSON throws when a stored enrollment names a student who is not
\* among the known students, and a class it returns holds one enrollment per
\* stored enrollment, in order, never the resolvable ones only
C21_UnresolvedStudentIsFatal ==
  IsFromJSON =>
    /\ result.threw <=> Unresolved(result.data, result.allStudents) # {}
    /\ ~result.threw =>
         /\ Len(EnrollmentsOf) = Len(result.data)
         /\ \A i \in DOMAIN EnrollmentsOf :
              EnrollmentsOf[i].student.cpf = result.data[i].student.cpf

\* C21 witness: fromJSON threw on stored data of two enrollments of which
\* one names a known student and the other does not
C21_Witness ==
  /\ IsFromJSON
  /\ result.threw
  /\ Len(result.data) = 2
  /\ Cardinality(Unresolved(result.data, result.allStudents)) = 1

IsResponse == result.op = "requestReport"

\* C22: a report request for an id the server holds no class for is answered
\* 404 with an error message and none of the report's fields; only a request
\* for the id of the class is answered with a report
C22_NotFound ==
  IsResponse =>
    IF result.classId # getClassId(classObj)
    THEN /\ result.status = 404
         /\ "error" \in DOMAIN result.body
         /\ DOMAIN result.body \cap ReportFields = {}
    ELSE /\ result.status = 200
         /\ result.body.classId = result.classId
         /\ "error" \notin DOMAIN result.body

\* C22 witness: a 404 for an unknown id while the class has a graded student
C22_Witness ==
  /\ IsResponse
  /\ result.classId # getClassId(classObj)
  /\ result.status = 404
  /\ \E i \in DOMAIN EnrollmentsOf : ~NoEvaluations(i)

\* C23: totalEnrolled is the number of enrollments, students has one entry
\* per enrollment, in enrollment order, with that enrollment's student
\* identity and name, and classId, topic, semester and year are the class's,
\* with classId = topic-year-semester
C23_IdentityAndRoster ==
  IsReport =>
    /\ Report.totalEnrolled = Len(EnrollmentsOf)
    /\ Len(Report.students) = Len(EnrollmentsOf)
    /\ \A i \in DOMAIN EnrollmentsOf :
         /\ Report.students[i].studentId = EnrollmentsOf[i].student.cpf
         /\ Report.students[i].name = EnrollmentsOf[i].student.name
    /\ Report.topic = classObj.topic
    /\ Report.semester = classObj.semester
    /\ Report.year = classObj.year
    /\ Report.classId = <<classObj.topic, "-", classObj.year, "-",
                          classObj.semester>>

\* C23 witness: a report of a class whose second student enrolled first
C23_Witness ==
  /\ IsReport
  /\ Len(EnrollmentsOf) = 2
  /\ EnrollmentsOf[1].student.cpf = 2
  /\ Report.students[1].studentId = 2
  /\ Report.students[2].studentId = 1
  /\ Report.classId = <<"ESS", "-", 2025, "-", 1>>

EntriesWithStatus(status) ==
  {i \in DOMAIN Report.students : Report.students[i].status = status}

StatusCounts ==
  {<<"approvedCount", "APPROVED">>,
   <<"approvedFinalCount", "APPROVED_FINAL">>,
   <<"notApprovedCount", "FAILED">>,
   <<"failedByAbsenceCount", "FAILED_BY_ABSENCE">>,
   <<"pendingCount", "PENDING">>}

\* C27: each of the five status counts of a report is the number of entries
\* of its students list that carry the corresponding status
C27_CountsMatchStatuses ==
  IsReport =>
    \A pair \in StatusCounts :
      JsGet(Report, pair[1]) = JsValue(Cardinality(EntriesWithStatus(pair[2])))

\* a step that changes one record of the class only, to a higher grade
RaisesOneGrade ==
  \E i \in DOMAIN EnrollmentsOf :
    \E j \in DOMAIN EnrollmentsOf[i].evaluations :
      \E grade \in Grades :
        /\ GradeRank(grade) > GradeRank(EnrollmentsOf[i].evaluations[j].grade)
        /\ classObj' =
             [classObj EXCEPT !.enrollments[i].evaluations[j].grade = grade]

\* the report after is nowhere below the report before: no final average, no
\* goal average and not the class average, and no APPROVED student is FAILED
NotLowered(before, after) ==
  /\ after.studentsAverage >= before.studentsAverage
  /\ \A i \in DOMAIN before.students :
       /\ after.students[i].finalGrade >= before.students[i].finalGrade
       /\ before.students[i].status = "APPROVED"
            => after.students[i].status = "APPROVED"
  /\ \A k \in DOMAIN before.evaluationPerformance :
       after.evaluationPerformance[k].goal = before.evaluationPerformance[k].goal
       /\ after.evaluationPerformance[k].averageGrade
            >= before.evaluationPerformance[k].averageGrade

\* C28: a step that replaces one record's grade by a higher grade lowers no
\* student's final average, no goal's averageGrade and not studentsAverage,
\* and moves no student from APPROVED to FAILED
C28_HigherGradeNeverLowers ==
  [][(result'.op = "setGrade" /\ ledger'.last = "raised" /\ RaisesOneGrade)
       => \A before \in {generate(classObj, 1)} :
            \A after \in {generate(classObj', 1)} :
              NotLowered(before, after)]_vars

\* C28 witness: a report after MANA was replaced by MPA for a student who is
\* APPROVED with it
C28_Witness ==
  /\ IsReport
  /\ ledger.last = "raised"
  /\ \E i \in DOMAIN EnrollmentsOf :
       /\ AllGraded(i, "MPA")
       /\ Report.students[i].status = "APPROVED"
       /\ Report.students[i].finalGrade = 700


\* the clean CPFs held by a list of students
CleanCPFsOf(students) == {getCleanCPF(students[i]) : i \in DOMAIN students}

\* C30: no two stored students share a CPF once dots and dashes are
\* stripped; an addStudent that did not throw appended a student whose clean
\* CPF was not stored, one that threw left the list as it was; an
\* updateStudent that did not throw replaced the student of the same clean
\* CPF, one that threw left the list as it was; a removeStudent that
\* returned false left the list as it was, one that returned true removed
\* one student.
C30_CleanCPFsAreUnique ==
  LET students == studentSet.students
      last == studentSet.last
  IN /\ \A i, j \in DOMAIN students :
          i # j => getCleanCPF(students[i]) # getCleanCPF(students[j])
     /\ last.op = "addStudent" =>
          IF last.threw THEN students = last.before
          ELSE /\ Len(students) = Len(last.before) + 1
               /\ SubSeq(students, 1, Len(last.before)) = last.before
               /\ getCleanCPF(students[Len(students)])
                    \notin CleanCPFsOf(last.before)
     /\ last.op = "updateStudent" =>
          IF last.threw THEN students = last.before
          ELSE /\ Len(students) = Len(last.before)
               /\ \A i \in DOMAIN students :
                    getCleanCPF(students[i]) = getCleanCPF(last.before[i])
     /\ last.op = "removeStudent" =>
          IF last.returned THEN Len(students) = Len(last.before) - 1
          ELSE students = last.before

\* a punctuated CPF was refused because the same CPF is stored plain, or
\* the other way round
C30_Witness ==
  /\ studentSet.last.op = "addStudent"
  /\ studentSet.last.threw
  /\ Len(studentSet.students) >= 2
  /\ \E i \in DOMAIN studentSet.students : Len(studentSet.students[i].cpf) = 5
  /\ \E i \in DOMAIN studentSet.students : Len(studentSet.students[i].cpf) = 3


\* C26: since the last closeBrowser call at most one browser has been
\* launched and at most one page created, whatever the interleaving of the
\* getBrowser and getPage calls.
C26_OneBrowserOnePage ==
  /\ browserState.launches <= 1
  /\ browserState.pages <= 1


\* C24: the selection never holds more than MAX_COMPARISON_SELECTION class
\* ids, whatever the sequence of toggles, additions and select-all toggles
\* and however many of them are issued before the component re-renders.
C24_SelectionIsCapped ==
  Cardinality(comparison.selected) <= MAX_COMPARISON_SELECTION


\* at least two classes are selected and none of them is without enrollments
Comparable(ids) ==
  /\ Cardinality(ids) >= 2
  /\ \A id \in ids : id \notin ClassesWithoutEnrollments

\* C25: handleCompareClasses issues its fetch exactly when at least 2
\* classes are selected and none of them has zero enrollments; otherwise it
\* sets a comparison error, issues no fetch and leaves comparisonReports as
\* they were; reports are stored only by the fetch of such a selection.
C25_CompareOnlyComparable ==
  LET last == comparison.last
  IN /\ last.op = "compare" =>
          /\ last.fetched <=> Comparable(last.ids)
          /\ (comparison.fetch.at = "pending") <=> last.fetched
          /\ last.fetched => comparison.fetch.ids = last.ids
          /\ comparison.reports = last.before
          /\ ~last.fetched => /\ comparison.error # Null
                              /\ ~comparison.loading
     /\ (last.op = "fetchResolved" /\ ~last.failed) =>
          /\ Comparable(last.ids)
          /\ comparison.reports = last.ids

\* a comparison of two classes, one of them empty, was refused while the
\* reports of an earlier comparison are displayed
C25_Witness ==
  /\ comparison.last.op = "compare"
  /\ ~comparison.last.fetched
  /\ Cardinality(comparison.last.ids) >= 2
  /\ comparison.last.before # {}
  /\ comparison.reports # {}


\* C29: whenever isLoadingComparison is true it is eventually false again,
\* whatever the outcome of the comparison: too few classes, an empty class,
\* a fetch that returns an error, a fetch that rejects, or success.
C29_LoadingEventuallyCleared ==
  comparison.loading ~> ~comparison.loading

====
